---- MODULE Spec2Model ----
(***************************************************************************)
(* Model of html-renderer/render.c: the launcher that resolves the         *)
(* identities "nobody"/"nogroup", initialises supplementary groups,        *)
(* changes directory, unshares namespaces, drops group and user IDs and    *)
(* finally execs /usr/bin/lynx.                                            *)
(*                                                                         *)
(* Every library/system call is atomic and its outcome (success/failure,   *)
(* and the contents of the identity database) is chosen by the             *)
(* environment.  A failed call leaves the kernel state untouched.          *)
(***************************************************************************)
EXTENDS Integers, Sequences, FiniteSets, TLC

\* ----- bounds of the model ------------------------------------------------
MaxId == 1          \* numeric user/group IDs range over 0..MaxId
MaxArgc == 2        \* argument vectors have at most MaxArgc elements

Ids == 0..MaxId
ArgStrings == {"a", "b"}
ArgVectors == UNION {[1..n -> ArgStrings] : n \in 0..MaxArgc}
Dirs == {"/", "/home"}

\* ----- program text -------------------------------------------------------
user == "nobody"            \* render.c:34
group == "nogroup"          \* render.c:35
NULL == <<>>                \* a null struct passwd* / struct group*

\* Mutant: the commented-out CLONE_NEWUSER is requested as well.
UnshareFlags_newuser ==
    {"CLONE_FILES", "CLONE_FS", "CLONE_NEWIPC", "CLONE_NEWNET",
     "CLONE_NEWNS", "CLONE_NEWPID", "CLONE_NEWUSER", "CLONE_NEWUTS",
     "CLONE_SYSVSEM"}

\* The flag set handed to unshare(); CLONE_NEWUSER is commented out.
UnshareFlags ==
    {"CLONE_FILES", "CLONE_FS", "CLONE_NEWIPC", "CLONE_NEWNET",
     "CLONE_NEWNS", "CLONE_NEWPID", "CLONE_NEWUTS", "CLONE_SYSVSEM"}

\* Mutant: the user ID is dropped before the group ID.
Pipeline_uidfirst ==
    <<"getpwnam", "getgrnam", "initgroups", "chdir", "unshare",
      "setresuid", "setresgid", "execv">>

\* Mutant: the namespaces are unshared only after the privilege drop.
Pipeline_unsharelate ==
    <<"getpwnam", "getgrnam", "initgroups", "chdir",
      "setresgid", "setresuid", "unshare", "execv">>

\* The statements of main() in program order.
Pipeline ==
    <<"getpwnam", "getgrnam", "initgroups", "chdir", "unshare",
      "setresgid", "setresuid", "execv">>

Ops == {Pipeline[i] : i \in 1..Len(Pipeline)}

\* Position of an operation in the program text.
Index(op) == CHOOSE i \in 1..Len(Pipeline) : Pipeline[i] = op

\* The statement control falls through to when the call `op` succeeded.
NextOp(op) ==
    IF Index(op) < Len(Pipeline) THEN Pipeline[Index(op) + 1] ELSE "Replaced"

VARIABLES
    pc,          \* the next call main() makes, or "Failed" / "Replaced"
    pwu,         \* struct passwd* pwu: NULL or <<[pw_uid |-> n]>>
    pwg,         \* struct group* pwg: NULL or <<[gr_gid |-> n]>>
    uids,        \* kernel: [real, effective, saved] user IDs
    gids,        \* kernel: [real, effective, saved] group IDs
    groups,      \* kernel: supplementary group set
    cwd,         \* kernel: working directory
    ns,          \* kernel: the flags this process has unshared so far
    argv,        \* main()'s argument vector
    image,       \* the program image running in this process
    stderr,      \* the lines perror() has written
    ret,         \* <<>> while main() runs, <<n>> once it returned n
    calls,       \* history: the calls made so far, with their outcome
    initial      \* history: the kernel state main() was entered with

vars == <<pc, pwu, pwg, uids, gids, groups, cwd, ns, argv, image, stderr,
          ret, calls, initial>>

Triple(r, e, s) == [real |-> r, effective |-> e, saved |-> s]

\* The state in which main() is entered.  execve() has copied the effective
\* IDs into the saved IDs; real and effective IDs may differ (set-ID bits).
Init ==
    /\ pc = Pipeline[1]
    /\ pwu = NULL
    /\ pwg = NULL
    /\ \E r, e \in Ids : uids = Triple(r, e, e)
    /\ \E r, e \in Ids : gids = Triple(r, e, e)
    /\ groups \in {{}, {gids.real}}
    /\ cwd \in Dirs
    /\ ns = {}
    /\ argv \in ArgVectors
    /\ image = [path |-> "render", argv |-> argv]
    /\ stderr = <<>>
    /\ ret = <<>>
    /\ calls = <<>>
    /\ initial = [uids |-> uids, gids |-> gids, groups |-> groups,
                  cwd |-> cwd, ns |-> ns, argv |-> argv]

\* ----- helpers ------------------------------------------------------------
\* Record that `op` was called and whether it succeeded.
Called(op, ok) == calls' = Append(calls, [op |-> op, ok |-> ok])

\* perror(op); return 1;
Fail(op) ==
    /\ pc' = "Failed"
    /\ stderr' = Append(stderr, op)
    /\ ret' = <<1>>

\* The if-condition was false: control reaches the next statement.
Proceed(op) ==
    /\ pc' = NextOp(op)
    /\ UNCHANGED <<stderr, ret>>

\* Mutant: only the effective group ID is set (setegid).
SetresgidEffect_effonly(old, g) == [old EXCEPT !.effective = g]

\* setresgid(g, g, g) on success.
SetresgidEffect(old, g) == Triple(g, g, g)

\* Mutant: only the effective user ID is set (seteuid).
SetresuidEffect_effonly(old, u) == [old EXCEPT !.effective = u]

\* setresuid(u, u, u) on success.
SetresuidEffect(old, u) == Triple(u, u, u)

\* ----- the statements of main() -------------------------------------------
\* Mutant: the result of getpwnam() is not checked.
GetPwNam_unchecked ==
    /\ pc = "getpwnam"
    /\ \E r \in {NULL} \cup {<<[pw_uid |-> u]>> : u \in Ids} :
        /\ pwu' = r
        /\ Called("getpwnam", r # NULL)
        /\ Proceed("getpwnam")
    /\ UNCHANGED <<pwg, uids, gids, groups, cwd, ns, argv, image, initial>>

\* if (!(pwu = getpwnam(user))) { perror("getpwnam"); return 1; }
GetPwNam ==
    /\ pc = "getpwnam"
    /\ \E r \in {NULL} \cup {<<[pw_uid |-> u]>> : u \in Ids} :
        /\ pwu' = r
        /\ Called("getpwnam", r # NULL)
        /\ IF r = NULL THEN Fail("getpwnam") ELSE Proceed("getpwnam")
    /\ UNCHANGED <<pwg, uids, gids, groups, cwd, ns, argv, image, initial>>

\* Mutant: the diagnostic of the group lookup names the user lookup.
GetGrNam_wrongname ==
    /\ pc = "getgrnam"
    /\ \E r \in {NULL} \cup {<<[gr_gid |-> g]>> : g \in Ids} :
        /\ pwg' = r
        /\ Called("getgrnam", r # NULL)
        /\ IF r = NULL THEN Fail("getpwnam") ELSE Proceed("getgrnam")
    /\ UNCHANGED <<pwu, uids, gids, groups, cwd, ns, argv, image, initial>>

\* if (!(pwg = getgrnam(group))) { perror("getgrnam"); return 1; }
GetGrNam ==
    /\ pc = "getgrnam"
    /\ \E r \in {NULL} \cup {<<[gr_gid |-> g]>> : g \in Ids} :
        /\ pwg' = r
        /\ Called("getgrnam", r # NULL)
        /\ IF r = NULL THEN Fail("getgrnam") ELSE Proceed("getgrnam")
    /\ UNCHANGED <<pwu, uids, gids, groups, cwd, ns, argv, image, initial>>

\* Mutant: initgroups() is given the user's ID instead of the group's.
InitGroups_wronggid ==
    /\ pc = "initgroups"
    /\ \E ok \in BOOLEAN, member \in SUBSET Ids :
        /\ Called("initgroups", ok)
        /\ IF ok
           THEN groups' = member \cup {pwu[1].pw_uid} /\ Proceed("initgroups")
           ELSE groups' = groups /\ Fail("initgroups")
    /\ UNCHANGED <<pwu, pwg, uids, gids, cwd, ns, argv, image, initial>>

\* Mutant: the result of initgroups() is not checked.
InitGroups_unchecked ==
    /\ pc = "initgroups"
    /\ \E ok \in BOOLEAN, member \in SUBSET Ids :
        /\ Called("initgroups", ok)
        /\ groups' = IF ok THEN member \cup {pwg[1].gr_gid} ELSE groups
        /\ Proceed("initgroups")
    /\ UNCHANGED <<pwu, pwg, uids, gids, cwd, ns, argv, image, initial>>

\* Mutant: the group ID is already set at supplementary group initialisation.
InitGroups_setgid ==
    /\ pc = "initgroups"
    /\ \E ok \in BOOLEAN, member \in SUBSET Ids :
        /\ Called("initgroups", ok)
        /\ IF ok
           THEN /\ groups' = member \cup {pwg[1].gr_gid}
                /\ gids' = SetresgidEffect(gids, pwg[1].gr_gid)
                /\ Proceed("initgroups")
           ELSE groups' = groups /\ gids' = gids /\ Fail("initgroups")
    /\ UNCHANGED <<pwu, pwg, uids, cwd, ns, argv, image, initial>>

\* if (initgroups(user, pwg->gr_gid)) { perror("initgroups"); return 1; }
\* On success the supplementary groups become the groups the database lists
\* `user` in, plus the given group.
InitGroups ==
    /\ pc = "initgroups"
    /\ \E ok \in BOOLEAN, member \in SUBSET Ids :
        /\ Called("initgroups", ok)
        /\ IF ok
           THEN groups' = member \cup {pwg[1].gr_gid} /\ Proceed("initgroups")
           ELSE groups' = groups /\ Fail("initgroups")
    /\ UNCHANGED <<pwu, pwg, uids, gids, cwd, ns, argv, image, initial>>

\* Mutant: a failed chdir() is reported and then tried again.
Chdir_retry ==
    /\ pc = "chdir"
    /\ \E ok \in BOOLEAN :
        /\ Called("chdir", ok)
        /\ IF ok
           THEN cwd' = "/" /\ Proceed("chdir")
           ELSE /\ cwd' = cwd
                /\ pc' = IF Len(calls) < 2 * Len(Pipeline)
                         THEN "chdir" ELSE "Failed"
                /\ stderr' = stderr
                /\ ret' = IF Len(calls) < 2 * Len(Pipeline) THEN ret ELSE <<1>>
    /\ UNCHANGED <<pwu, pwg, uids, gids, groups, ns, argv, image, initial>>

\* if (chdir("/")) { perror("chdir"); return 1; }
Chdir ==
    /\ pc = "chdir"
    /\ \E ok \in BOOLEAN :
        /\ Called("chdir", ok)
        /\ IF ok
           THEN cwd' = "/" /\ Proceed("chdir")
           ELSE cwd' = cwd /\ Fail("chdir")
    /\ UNCHANGED <<pwu, pwg, uids, gids, groups, ns, argv, image, initial>>

\* Mutant: the result of unshare() is not checked.
Unshare_unchecked ==
    /\ pc = "unshare"
    /\ \E ok \in BOOLEAN :
        /\ Called("unshare", ok)
        /\ ns' = IF ok THEN ns \cup UnshareFlags ELSE ns
        /\ Proceed("unshare")
    /\ UNCHANGED <<pwu, pwg, uids, gids, groups, cwd, argv, image, initial>>

\* if (unshare(CLONE_FILES | ... | CLONE_SYSVSEM)) { perror("unshare"); return 1; }
Unshare ==
    /\ pc = "unshare"
    /\ \E ok \in BOOLEAN :
        /\ Called("unshare", ok)
        /\ IF ok
           THEN ns' = ns \cup UnshareFlags /\ Proceed("unshare")
           ELSE ns' = ns /\ Fail("unshare")
    /\ UNCHANGED <<pwu, pwg, uids, gids, groups, cwd, argv, image, initial>>

\* Mutant: the result of setresgid() is not checked.
SetResGid_unchecked ==
    /\ pc = "setresgid"
    /\ \E ok \in BOOLEAN :
        /\ Called("setresgid", ok)
        /\ gids' = IF ok THEN SetresgidEffect(gids, pwg[1].gr_gid) ELSE gids
        /\ Proceed("setresgid")
    /\ UNCHANGED <<pwu, pwg, uids, groups, cwd, ns, argv, image, initial>>

\* if (setresgid(pwg->gr_gid, pwg->gr_gid, pwg->gr_gid)) { perror; return 1; }
SetResGid ==
    /\ pc = "setresgid"
    /\ \E ok \in BOOLEAN :
        /\ Called("setresgid", ok)
        /\ IF ok
           THEN gids' = SetresgidEffect(gids, pwg[1].gr_gid)
                /\ Proceed("setresgid")
           ELSE gids' = gids /\ Fail("setresgid")
    /\ UNCHANGED <<pwu, pwg, uids, groups, cwd, ns, argv, image, initial>>

\* Mutant: a failed setresuid() is reported but main() does not return.
SetResUid_noreturn ==
    /\ pc = "setresuid"
    /\ \E ok \in BOOLEAN :
        /\ Called("setresuid", ok)
        /\ IF ok
           THEN uids' = SetresuidEffect(uids, pwu[1].pw_uid)
                /\ Proceed("setresuid")
           ELSE uids' = uids
                /\ pc' = NextOp("setresuid")
                /\ stderr' = Append(stderr, "setresuid")
                /\ ret' = ret
    /\ UNCHANGED <<pwu, pwg, gids, groups, cwd, ns, argv, image, initial>>

\* Mutant: the result of setresuid() is not checked.
SetResUid_unchecked ==
    /\ pc = "setresuid"
    /\ \E ok \in BOOLEAN :
        /\ Called("setresuid", ok)
        /\ uids' = IF ok THEN SetresuidEffect(uids, pwu[1].pw_uid) ELSE uids
        /\ Proceed("setresuid")
    /\ UNCHANGED <<pwu, pwg, gids, groups, cwd, ns, argv, image, initial>>

\* Mutant: a failed setresuid() undoes the group drop before returning.
SetResUid_regaingroup ==
    /\ pc = "setresuid"
    /\ \E ok \in BOOLEAN :
        /\ Called("setresuid", ok)
        /\ IF ok
           THEN /\ uids' = SetresuidEffect(uids, pwu[1].pw_uid)
                /\ gids' = gids
                /\ Proceed("setresuid")
           ELSE /\ uids' = uids
                /\ gids' = initial.gids
                /\ Fail("setresuid")
    /\ UNCHANGED <<pwu, pwg, groups, cwd, ns, argv, image, initial>>

\* if (setresuid(pwu->pw_uid, pwu->pw_uid, pwu->pw_uid)) { perror; return 1; }
SetResUid ==
    /\ pc = "setresuid"
    /\ \E ok \in BOOLEAN :
        /\ Called("setresuid", ok)
        /\ IF ok
           THEN uids' = SetresuidEffect(uids, pwu[1].pw_uid)
                /\ Proceed("setresuid")
           ELSE uids' = uids /\ Fail("setresuid")
    /\ UNCHANGED <<pwu, pwg, gids, groups, cwd, ns, argv, image, initial>>

\* Mutant: a failed execv() makes main() return 0.
Execv_return0 ==
    /\ pc = "execv"
    /\ \E ok \in BOOLEAN :
        /\ Called("execv", ok)
        /\ IF ok
           THEN image' = [path |-> "/usr/bin/lynx", argv |-> argv]
                /\ Proceed("execv")
           ELSE image' = image
                /\ pc' = "Failed"
                /\ stderr' = Append(stderr, "execv")
                /\ ret' = <<0>>
    /\ UNCHANGED <<pwu, pwg, uids, gids, groups, cwd, ns, argv, initial>>

\* Mutant: a failed execv() is tried a second time.
Execv_retry ==
    /\ pc = "execv"
    /\ \E ok \in BOOLEAN :
        /\ Called("execv", ok)
        /\ IF ok
           THEN image' = [path |-> "/usr/bin/lynx", argv |-> argv]
                /\ Proceed("execv")
           ELSE /\ image' = image
                /\ IF \E i \in DOMAIN calls : calls[i].op = "execv"
                   THEN Fail("execv")
                   ELSE pc' = "execv" /\ UNCHANGED <<stderr, ret>>
    /\ UNCHANGED <<pwu, pwg, uids, gids, groups, cwd, ns, argv, initial>>

\* Mutant: the replacement image is handed argv + 1 instead of argv.
Execv_shiftargv ==
    /\ pc = "execv"
    /\ \E ok \in BOOLEAN :
        /\ Called("execv", ok)
        /\ IF ok
           THEN image' = [path |-> "/usr/bin/lynx",
                          argv |-> SubSeq(argv, 2, Len(argv))]
                /\ Proceed("execv")
           ELSE image' = image /\ Fail("execv")
    /\ UNCHANGED <<pwu, pwg, uids, gids, groups, cwd, ns, argv, initial>>

\* execv("/usr/bin/lynx", argv); perror("execv"); return 1;
\* A successful execv() does not return: the image is replaced.
Execv ==
    /\ pc = "execv"
    /\ \E ok \in BOOLEAN :
        /\ Called("execv", ok)
        /\ IF ok
           THEN image' = [path |-> "/usr/bin/lynx", argv |-> argv]
                /\ Proceed("execv")
           ELSE image' = image /\ Fail("execv")
    /\ UNCHANGED <<pwu, pwg, uids, gids, groups, cwd, ns, argv, initial>>

Next ==
    \/ GetPwNam
    \/ GetGrNam
    \/ InitGroups
    \/ Chdir
    \/ Unshare
    \/ SetResGid
    \/ SetResUid
    \/ Execv

Spec == Init /\ [][Next]_vars

\* Every call returns: a run that can take a step eventually takes one.
FairSpec == Spec /\ WF_vars(Next)

TypeOK ==
    /\ pc \in Ops \cup {"Failed", "Replaced"}
    /\ ret \in {<<>>, <<1>>}

\* ----- vocabulary of the properties ---------------------------------------
Attempted(op) == \E i \in DOMAIN calls : calls[i].op = op
Succeeded(op) == \E i \in DOMAIN calls : calls[i].op = op /\ calls[i].ok
FailedCall(op) == \E i \in DOMAIN calls : calls[i].op = op /\ ~calls[i].ok

\* The calls of the stages that precede Exec / that precede DroppingGroup.
BeforeExec ==
    {"getpwnam", "getgrnam", "initgroups", "chdir", "unshare",
     "setresgid", "setresuid"}
BeforeDroppingGroup ==
    {"getpwnam", "getgrnam", "initgroups", "chdir", "unshare"}

\* Both triples hold the resolved target identity in all three slots.
UserIsTarget ==
    pwu # NULL /\ uids = Triple(pwu[1].pw_uid, pwu[1].pw_uid, pwu[1].pw_uid)
GroupIsTarget ==
    pwg # NULL /\ gids = Triple(pwg[1].gr_gid, pwg[1].gr_gid, pwg[1].gr_gid)

\* The call that made the run fail (the last one made).
FailedOp == calls[Len(calls)].op

\* C1: whenever one of getpwnam, getgrnam, initgroups, chdir, unshare,
\* setresgid or setresuid has failed, main() has returned a nonzero status
\* and execv has not been (and, the state being terminal, is never) called.
C1_FailureNeverExecs ==
    \A op \in BeforeExec :
        FailedCall(op) =>
            /\ pc = "Failed"
            /\ ret # <<>> /\ ret[1] # 0
            /\ ~Attempted("execv")

C1_Witness ==
    /\ FailedCall("setresuid")
    /\ pc = "Failed"
    /\ Succeeded("setresgid")

\* C2: every setresuid call is preceded in the call history by a setresgid
\* call that succeeded; when setresuid is about to be called the group triple
\* already is the target group; on a replaced run the successful setresgid
\* precedes the successful setresuid.
C2_GroupBeforeUser ==
    /\ \A i \in DOMAIN calls :
          calls[i].op = "setresuid" =>
              \E j \in 1..(i - 1) : calls[j].op = "setresgid" /\ calls[j].ok
    /\ pc = "setresuid" => GroupIsTarget
    /\ pc = "Replaced" =>
          \E i, j \in DOMAIN calls :
              /\ j < i
              /\ calls[j].op = "setresgid" /\ calls[j].ok
              /\ calls[i].op = "setresuid" /\ calls[i].ok

C2_Witness ==
    /\ pc = "Replaced"
    /\ Succeeded("setresgid")
    /\ Succeeded("setresuid")
    /\ initial.gids.effective # pwg[1].gr_gid

\* C3: every setresgid and setresuid call is preceded in the call history by
\* a successful unshare, and while unshare is about to be called (and right
\* after it returned) both triples are still the ones main() was entered with.
C3_IsolateBeforeDrop ==
    /\ \A i \in DOMAIN calls :
          calls[i].op \in {"setresgid", "setresuid"} =>
              \E j \in 1..(i - 1) : calls[j].op = "unshare" /\ calls[j].ok
    /\ pc = "unshare" => uids = initial.uids /\ gids = initial.gids
    /\ (calls # <<>> /\ FailedOp = "unshare") =>
          uids = initial.uids /\ gids = initial.gids

C3_Witness ==
    /\ Attempted("setresuid")
    /\ Succeeded("unshare")
    /\ ns = UnshareFlags
    /\ uids # initial.uids

\* C4: in state Replaced the real, effective and saved user IDs all equal
\* the resolved pw_uid and the real, effective and saved group IDs all equal
\* the resolved gr_gid.
C4_ReplacedIsTarget ==
    pc = "Replaced" =>
        /\ UserIsTarget
        /\ GroupIsTarget
        /\ image.path = "/usr/bin/lynx"

C4_Witness ==
    /\ pc = "Replaced"
    /\ initial.uids.real # pwu[1].pw_uid
    /\ initial.uids.effective # initial.uids.real
    /\ initial.gids.real # pwg[1].gr_gid

\* C5 (as stated): in every reachable state the effective ID equals the real
\* ID and the saved ID, for the user and for the group dimension.
C5_SlotsAlwaysEqual ==
    /\ uids.effective = uids.real /\ uids.effective = uids.saved
    /\ gids.effective = gids.real /\ gids.effective = gids.saved

\* C5 (amended): in every reachable state each triple is either exactly the
\* triple main() was entered with or holds the resolved target ID in all
\* three slots; so the three slots agree from the successful drop of that
\* dimension onwards, and throughout when they agreed on entry.
C5_TripleWholeOrUntouched ==
    /\ uids = initial.uids \/ UserIsTarget
    /\ gids = initial.gids \/ GroupIsTarget
    /\ Succeeded("setresuid") =>
          uids.effective = uids.real /\ uids.effective = uids.saved
    /\ Succeeded("setresgid") =>
          gids.effective = gids.real /\ gids.effective = gids.saved
    /\ initial.uids.real = initial.uids.effective =>
          uids.effective = uids.real /\ uids.effective = uids.saved
    /\ initial.gids.real = initial.gids.effective =>
          gids.effective = gids.real /\ gids.effective = gids.saved

C5_Witness ==
    /\ Succeeded("setresgid")
    /\ pc = "setresuid"
    /\ initial.gids.real # initial.gids.effective
    /\ initial.uids.real # initial.uids.effective
    /\ gids # initial.gids

\* C6 (as stated): in state Failed, either the failing call belongs to a
\* stage before DroppingGroup and nothing later was attempted, or both
\* triples hold the target identity.
C6_UnprivilegedUnlessBeforeGroupDrop ==
    pc = "Failed" =>
        \/ /\ FailedOp \in BeforeDroppingGroup
           /\ ret = <<1>>
           /\ \A i \in 1..(Len(calls) - 1) : calls[i].ok
        \/ UserIsTarget /\ GroupIsTarget

\* C6 (amended): in state Failed, the failing call is the last call made,
\* main() has returned 1 and every earlier call succeeded (no later stage
\* was attempted); and if the failing call is execv, both triples hold the
\* target identity.  A failure of setresgid or setresuid terminates in the
\* same way, with the triple not yet dropped still at its entry value.
C6_TerminatedOrUnprivileged ==
    pc = "Failed" =>
        /\ ~calls[Len(calls)].ok
        /\ ret = <<1>>
        /\ \A i \in 1..(Len(calls) - 1) : calls[i].ok
        /\ FailedOp \in BeforeExec \/ (UserIsTarget /\ GroupIsTarget)
        /\ FailedOp = "setresgid" => uids = initial.uids /\ gids = initial.gids
        /\ FailedOp = "setresuid" => uids = initial.uids /\ GroupIsTarget

C6_Witness ==
    /\ pc = "Failed"
    /\ FailedOp = "execv"
    /\ uids # initial.uids
    /\ gids # initial.gids

\* C7: in state Failed main() has returned 1 and stderr holds exactly one
\* line, naming the call that failed; main() never returns anything but 1,
\* and a run that has not failed has written no diagnostic.
C7_OneDiagnosticExitOne ==
    /\ pc = "Failed" =>
          /\ ret = <<1>>
          /\ Len(stderr) = 1
          /\ stderr[1] = FailedOp
          /\ ~calls[Len(calls)].ok
          /\ \A i \in 1..(Len(calls) - 1) : calls[i].ok
    /\ pc # "Failed" => ret = <<>> /\ stderr = <<>>
    /\ pc # "Replaced" => image.path = "render"

C7_Witness ==
    /\ pc = "Failed"
    /\ stderr = <<"getgrnam">>
    /\ ret = <<1>>

\* C8: when getpwnam or getgrnam has failed, main() has returned 1 with one
\* diagnostic naming that lookup, none of initgroups, chdir, unshare,
\* setresgid, setresuid, execv has been called, and supplementary groups,
\* working directory, namespaces and both triples are as on entry.
C8_ResolveFailureTouchesNothing ==
    \A op \in {"getpwnam", "getgrnam"} :
        FailedCall(op) =>
            /\ pc = "Failed"
            /\ ret = <<1>>
            /\ stderr = <<op>>
            /\ \A later \in {"initgroups", "chdir", "unshare", "setresgid",
                             "setresuid", "execv"} : ~Attempted(later)
            /\ op = "getpwnam" => ~Attempted("getgrnam")
            /\ groups = initial.groups
            /\ cwd = initial.cwd
            /\ ns = initial.ns
            /\ uids = initial.uids
            /\ gids = initial.gids

C8_Witness ==
    /\ FailedCall("getpwnam")
    /\ pc = "Failed"
    /\ cwd # "/"

\* C9: when unshare has failed, main() has returned 1 with the one
\* diagnostic "unshare", none of setresgid, setresuid, execv has been called,
\* and both triples are as on entry.
C9_UnshareFailureNoDrop ==
    FailedCall("unshare") =>
        /\ pc = "Failed"
        /\ ret = <<1>>
        /\ stderr = <<"unshare">>
        /\ ~Attempted("setresgid")
        /\ ~Attempted("setresuid")
        /\ ~Attempted("execv")
        /\ uids = initial.uids
        /\ gids = initial.gids
        /\ ns = initial.ns

C9_Witness ==
    /\ FailedCall("unshare")
    /\ pc = "Failed"
    /\ Succeeded("chdir")
    /\ initial.uids.effective # pwu[1].pw_uid

\* C10: when every call up to setresuid succeeded and execv failed, main()
\* has returned 1 with the one diagnostic "execv", both triples hold the
\* target identity and the unshared namespaces are in place.
C10_ExecFailureAlreadySandboxed ==
    ((\A op \in BeforeExec : Succeeded(op)) /\ FailedCall("execv")) =>
        /\ pc = "Failed"
        /\ ret = <<1>>
        /\ stderr = <<"execv">>
        /\ UserIsTarget
        /\ GroupIsTarget
        /\ ns # {}
        /\ ns = initial.ns \cup UnshareFlags
        /\ image.path = "render"

C10_Witness ==
    /\ FailedCall("execv")
    /\ pc = "Failed"
    /\ Succeeded("setresuid")
    /\ initial.uids.effective # pwu[1].pw_uid
    /\ initial.gids.effective # pwg[1].gr_gid

\* Number of times `op` has been called so far.
TimesCalled(op) == Cardinality({i \in DOMAIN calls : calls[i].op = op})

AllCalls ==
    {"getpwnam", "getgrnam", "initgroups", "chdir", "unshare",
     "setresgid", "setresuid", "execv"}

\* C11: none of getpwnam, getgrnam, initgroups, chdir, unshare, setresgid,
\* setresuid, execv has been called more than once, and in state Replaced
\* each of them has been called exactly once (and succeeded).
C11_NoRepeat ==
    /\ \A op \in AllCalls : TimesCalled(op) <= 1
    /\ \A i \in DOMAIN calls : calls[i].op \in AllCalls
    /\ pc = "Replaced" =>
          /\ \A op \in AllCalls : TimesCalled(op) = 1 /\ Succeeded(op)
          /\ Len(calls) = Cardinality(AllCalls)

C11_Witness ==
    /\ pc = "Replaced"
    /\ Len(calls) = 8
    /\ TimesCalled("execv") = 1

\* C12: once initgroups / chdir / unshare / setresgid / setresuid has
\* succeeded, no later step (a later stage succeeding or failing) changes
\* the supplementary groups / working directory / namespaces / group triple
\* / user triple it established.
C12_NoRollback ==
    [][ /\ Succeeded("initgroups") => groups' = groups
        /\ Succeeded("chdir") => cwd' = cwd
        /\ Succeeded("unshare") => ns' = ns
        /\ Succeeded("setresgid") => gids' = gids
        /\ Succeeded("setresuid") => uids' = uids ]_vars

C12_Witness ==
    /\ pc = "Failed"
    /\ FailedOp = "setresuid"
    /\ gids # initial.gids
    /\ GroupIsTarget
    /\ cwd # initial.cwd
    /\ groups # initial.groups
    /\ ns # initial.ns

\* C13: argv is what main() was entered with in every state, and in state
\* Replaced the new image runs with exactly that vector (same length, same
\* elements in the same order).
C13_ArgvVerbatim ==
    /\ argv = initial.argv
    /\ pc = "Replaced" =>
          /\ Len(image.argv) = Len(initial.argv)
          /\ \A i \in 1..Len(initial.argv) : image.argv[i] = initial.argv[i]
    /\ pc # "Replaced" => image.argv = initial.argv

C13_Witness ==
    /\ pc = "Replaced"
    /\ Len(initial.argv) = 2
    /\ initial.argv[1] # initial.argv[2]
    /\ image.argv = initial.argv
    /\ image.path = "/usr/bin/lynx"

\* The isolation unshare() is asked for is in place.
Isolated == ns # {} /\ ns = initial.ns \cup UnshareFlags

\* C14 (as stated): in state Failed, the failing call is execv if and only
\* if both triples hold the target identity and the isolation is in place;
\* after any other failure the user triple, the group triple or the
\* namespace set is as on entry.
C14_ExecIffTargetAndIsolated ==
    pc = "Failed" =>
        /\ FailedOp = "execv" <=> (UserIsTarget /\ GroupIsTarget /\ Isolated)
        /\ FailedOp # "execv" =>
              uids = initial.uids \/ gids = initial.gids \/ ns = initial.ns

\* C14 (amended): in state Failed, the failing call is execv if and only if
\* unshare, setresgid and setresuid have all succeeded, and then both triples
\* hold the target identity and the isolation is in place; after any other
\* failure the user triple, the group triple or the namespace set is as on
\* entry, which differs from the target condition unless main() was entered
\* with the target user identity already.
C14_ExecIffAllDropped ==
    pc = "Failed" =>
        /\ FailedOp = "execv" <=>
              (Succeeded("unshare") /\ Succeeded("setresgid")
               /\ Succeeded("setresuid"))
        /\ FailedOp = "execv" => UserIsTarget /\ GroupIsTarget /\ Isolated
        /\ FailedOp # "execv" =>
              uids = initial.uids \/ gids = initial.gids \/ ns = initial.ns
        /\ (FailedOp # "execv" /\ pwu # NULL
            /\ initial.uids # Triple(pwu[1].pw_uid, pwu[1].pw_uid,
                                     pwu[1].pw_uid)) =>
              ~(UserIsTarget /\ GroupIsTarget /\ Isolated)

C14_Witness ==
    /\ pc = "Failed"
    /\ FailedOp = "setresuid"
    /\ UserIsTarget
    /\ GroupIsTarget
    /\ Isolated
    /\ gids # initial.gids

\* C15: while initgroups is about to be called both triples are as on entry
\* and neither setresgid nor setresuid has been called; every setresgid call
\* is preceded by a successful initgroups, whose group (pwg->gr_gid, the one
\* setresgid uses) is in the supplementary groups from then on.
C15_InitgroupsWhilePrivileged ==
    /\ pc = "initgroups" =>
          /\ uids = initial.uids /\ gids = initial.gids
          /\ ~Attempted("setresgid") /\ ~Attempted("setresuid")
          /\ pwg # NULL
    /\ \A i \in DOMAIN calls :
          calls[i].op = "initgroups" =>
              \A j \in 1..i : calls[j].op \notin {"setresgid", "setresuid"}
    /\ \A i \in DOMAIN calls :
          calls[i].op = "setresgid" =>
              \E j \in 1..(i - 1) : calls[j].op = "initgroups" /\ calls[j].ok
    /\ (pc = "setresgid" \/ Attempted("setresgid")) =>
          pwg # NULL /\ pwg[1].gr_gid \in groups
    /\ Succeeded("setresgid") => gids.real \in groups

C15_Witness ==
    /\ Succeeded("setresgid")
    /\ Succeeded("initgroups")
    /\ groups = {pwg[1].gr_gid}
    /\ pwu[1].pw_uid # pwg[1].gr_gid
    /\ initial.groups # groups

\* The order of the calls as the specification lists the stages.
StageOrder ==
    <<"getpwnam", "getgrnam", "initgroups", "chdir", "unshare",
      "setresgid", "setresuid", "execv">>

\* C16: the calls made so far are, in order, a prefix of getpwnam, getgrnam,
\* initgroups, chdir, unshare, setresgid, setresuid, execv; every call but
\* the last one made has succeeded; and the cursor is the call right after
\* that prefix, or Failed / Replaced when the last call failed / was execv.
C16_ForwardOnlyCursor ==
    /\ Len(calls) <= Len(StageOrder)
    /\ \A i \in DOMAIN calls : calls[i].op = StageOrder[i]
    /\ \A i \in 1..(Len(calls) - 1) : calls[i].ok
    /\ pc \notin {"Failed", "Replaced"} =>
          /\ \A i \in DOMAIN calls : calls[i].ok
          /\ Len(calls) < Len(StageOrder)
          /\ pc = StageOrder[Len(calls) + 1]
    /\ pc = "Failed" => ~calls[Len(calls)].ok
    /\ pc = "Replaced" =>
          Len(calls) = Len(StageOrder) /\ calls[Len(calls)].ok

C16_Witness ==
    /\ pc = "setresuid"
    /\ Len(calls) = 6
    /\ \A i \in DOMAIN calls : calls[i].ok

Terminal == {"Failed", "Replaced"}

\* C17: when every call returns, each run eventually is in Failed or
\* Replaced; no call is made twice (nothing is retried); and no step is
\* taken from Failed or Replaced.
C17_TerminatesWithoutRetry ==
    /\ <>(pc \in Terminal)
    /\ [](\A op \in AllCalls : TimesCalled(op) <= 1)
    /\ [][pc \notin Terminal /\ Len(calls') = Len(calls) + 1]_vars

C17_Witness ==
    /\ pc = "Failed"
    /\ FailedOp = "chdir"
    /\ TimesCalled("chdir") = 1
    /\ Len(calls) = 4

\* C18: a step of getpwnam, getgrnam, initgroups, chdir or unshare leaves
\* both triples as they are (and they are as on entry); a step of setresgid
\* leaves the user triple, and, when it fails, the group triple as well; a
\* step of setresuid leaves the group triple, and, when it fails, the user
\* triple as well.
C18_TripleFrames ==
    /\ [](pc \in BeforeDroppingGroup =>
            uids = initial.uids /\ gids = initial.gids)
    /\ [][ /\ pc \in BeforeDroppingGroup => uids' = uids /\ gids' = gids
           /\ pc = "setresgid" =>
                 /\ uids' = uids
                 /\ pc' = "Failed" => gids' = gids
                 /\ pc' # "Failed" => gids' = Triple(pwg[1].gr_gid,
                                          pwg[1].gr_gid, pwg[1].gr_gid)
           /\ pc = "setresuid" =>
                 /\ gids' = gids
                 /\ pc' = "Failed" => uids' = uids
                 /\ pc' # "Failed" => uids' = Triple(pwu[1].pw_uid,
                                          pwu[1].pw_uid, pwu[1].pw_uid)
           /\ pc = "execv" => uids' = uids /\ gids' = gids ]_vars

C18_Witness ==
    /\ pc = "setresuid"
    /\ gids # initial.gids
    /\ uids = initial.uids
    /\ ~UserIsTarget

\* The isolation set of the specification: mount, IPC, network, PID and UTS
\* namespaces, SysV-semaphore detachment, filesystem-attribute and
\* file-descriptor-table detachment.
IsolationSet ==
    {"CLONE_NEWNS", "CLONE_NEWIPC", "CLONE_NEWNET", "CLONE_NEWPID",
     "CLONE_NEWUTS", "CLONE_SYSVSEM", "CLONE_FS", "CLONE_FILES"}

\* C19: unshare is called at most once; once it succeeded the unshared set
\* is exactly the isolation set above, and before that it is empty; the user
\* namespace is never unshared, in particular not in any state in which
\* setresgid or setresuid is about to be or has been called.
C19_IsolationSetNoUserNs ==
    /\ TimesCalled("unshare") <= 1
    /\ ns = IF Succeeded("unshare") THEN IsolationSet ELSE {}
    /\ "CLONE_NEWUSER" \notin ns
    /\ (pc \in {"setresgid", "setresuid"} \/ Attempted("setresgid")
        \/ Attempted("setresuid")) =>
          ns = IsolationSet /\ "CLONE_NEWUSER" \notin ns

C19_Witness ==
    /\ Attempted("setresuid")
    /\ Attempted("setresgid")
    /\ ns = IsolationSet
    /\ Cardinality(ns) = 8
====
